---- MODULE Spec2Model ----
(***************************************************************************)
(* MeasurementRunner (src/src/models/measurement_runner.py): a background  *)
(* sampling loop started and stopped by caller contexts.                   *)
(*                                                                         *)
(* Every source line of start(), stop() and of the loop that touches the   *)
(* shared state (the thread handle, the stop event, a Thread object) is    *)
(* one atomic step; the pc values carry the number of the next line to     *)
(* run.  Time is counted in ticks, PollQuantum ticks to one sleep(0.05).   *)
(* Timing is idealised the way the timing claims state it: statements and  *)
(* callbacks take no time, sleep() lasts exactly the poll quantum, and     *)
(* time passes only while every live loop is asleep and every caller is    *)
(* between calls or blocked in join().                                     *)
(*                                                                         *)
(* Interface (src/src/models/interfaces/interface.py): the base class of   *)
(* the instrument interfaces.  A variant is the set of operations its      *)
(* class overrides; an operation it does not override is the base class's, *)
(* which raises NotImplementedError.                                       *)
(***************************************************************************)
EXTENDS Integers, Sequences, FiniteSets, TLC

\* time.sleep(0.05) in ticks: a tick is half a poll quantum
PollQuantum == 2

\* ---------------------------------------------------------------- bounds
MaxSampleTime == 3
MaxEndTime == 5
MaxThreads == 2
NumCallers == 2
MaxCalls == 3
MaxRaises == 1

Callers == 1..NumCallers
Threads == 1..MaxThreads
None == 0

\* configuration.KEY_NAME: the field of a measurement that holds its name
KEY_NAME == "name"

Measurement(name) == [name |-> name]

MeasurementLists ==
  { <<>>, <<Measurement("temp")>>, <<Measurement("temp"), Measurement("pressure")>> }

\* The connection parameters an interface is matched on, and their values.
ParamKeys == {"port", "baud"}
ParamValues == {"COM3", "COM4", "9600"}

\* dict objects over the parameters: any of the keys, each with a value
ParamDicts == UNION {[D -> ParamValues] : D \in SUBSET ParamKeys}

\* The operations the base class leaves to the derived class.
RequiredOps == {"send_command", "close", "get_settings_controls"}

\* What the body of an overriding method can do: return, raise an exception
\* derived from Exception, raise one that is not (KeyboardInterrupt, ...).
Failures == {"none", "Exception", "BaseException"}

NoOutcome == [op |-> "none", path |-> "none", raised |-> "none", result |-> "none"]

VARIABLES
  params_to_match, \* Interface: self._params_to_match
  implemented,   \* Interface: the required operations the variant overrides
  exists,        \* Interface: the object has not been finalised yet
  candidate,     \* Interface: the params of the last is_match(params)
  matched,       \* Interface: what the last is_match(params) returned
  outcome,       \* Interface: the last operation and how it ended (history)
  after_signal,  \* per loop: batches and sleeps begun with the signal up (history)
  measurements,  \* configuration.get_measurements(): the names, in order
  sample_time,   \* configuration.get_sample_time(), ticks
  end_time,      \* configuration.get_end_time(), ticks
  thread,        \* self._measurement_thread: None or a Thread object
  stop_event,    \* self._stop_event
  nthreads,      \* Thread objects constructed so far
  tpc,           \* per Thread object: where its run is
  do_sample,     \* per loop: local do_sample
  start_time,    \* per loop: local start_time
  sample_start,  \* per loop: local sample_start
  idx,           \* per loop: position of the for loop in measurements
  wake,          \* per loop: when the running sleep(0.05) ends
  exit_reason,   \* per loop: how the while loop was left (history)
  now,           \* time.time()
  events,        \* per run: the callback's invocations, in order (history)
  cpc,           \* per caller: the line of start()/stop() it is about to run
  cjoin,         \* per caller: the Thread object its join() waits for
  cres,          \* per caller: how its last finished call ended (history)
  ctarget,       \* per caller: the handle its stop() saw at line 51 (history)
  ctime,         \* per caller: when its call was made (history)
  ncalls,        \* calls made so far
  lastcall,      \* the call made last: who made it and which (history)
  nraises        \* callback invocations that raised so far

config == <<measurements, sample_time, end_time>>
runner == <<thread, stop_event, nthreads>>
locals == <<do_sample, start_time, sample_start, idx, wake>>
loopv == <<tpc, exit_reason>>
callerv == <<cpc, cjoin, cres, ctarget, ctime, ncalls, lastcall>>
ifacev == <<params_to_match, implemented, exists, candidate, matched, outcome>>
runnerv == <<config, runner, locals, loopv, now, events, callerv, nraises, after_signal>>
vars == <<ifacev, runnerv>>

\* ------------------------------------------------------------ Thread objects
\* Thread.is_alive(): started and run() not yet finished.
IsAlive(t) == tpc[t] \notin {"new", "created", "dead"}

\* Thread._started: set by start(), never cleared.
IsStarted(t) == tpc[t] \notin {"new", "created"}

\* MeasurementRunner.is_running
IsRunning == thread # None /\ IsAlive(thread)

\* ------------------------------------------------------------------ messages
MsgStarting == "Process starting"
MsgFinished == "Process finished"
MsgMeasurement(name) == "Process  measurement: " \o name

Event(elapsed, message) == [elapsed |-> elapsed, message |-> message]

\* self._callback(elapsed, message) on the loop of Thread t; ok: it returns,
\* otherwise it raises and the exception ends the thread's run().
Callback(t, elapsed, message, ok) ==
  /\ events' = [events EXCEPT ![t] = Append(@, Event(elapsed, message))]
  /\ IF ok THEN nraises' = nraises
           ELSE nraises < MaxRaises /\ nraises' = nraises + 1

\* ------------------------------------------------------------------- Init
\* MeasurementRunner.__init__
Init ==
  /\ measurements \in MeasurementLists
  /\ sample_time \in 1..MaxSampleTime
  /\ end_time \in 0..MaxEndTime
  /\ thread = None
  /\ stop_event = FALSE
  /\ nthreads = 0
  /\ tpc = [t \in Threads |-> "new"]
  /\ do_sample = [t \in Threads |-> FALSE]
  /\ start_time = [t \in Threads |-> 0]
  /\ sample_start = [t \in Threads |-> 0]
  /\ idx = [t \in Threads |-> 0]
  /\ wake = [t \in Threads |-> 0]
  /\ exit_reason = [t \in Threads |-> "none"]
  /\ now = 0
  /\ events = [t \in Threads |-> <<>>]
  /\ cpc = [c \in Callers |-> "idle"]
  /\ cjoin = [c \in Callers |-> None]
  /\ cres = [c \in Callers |-> "none"]
  /\ ctarget = [c \in Callers |-> None]
  /\ ctime = [c \in Callers |-> 0]
  /\ ncalls = 0
  /\ lastcall = [caller |-> None, op |-> "none"]
  /\ nraises = 0
  /\ after_signal = [t \in Threads |-> [batches |-> 0, sleeps |-> 0]]

\* ------------------------------------------------- MeasurementRunner.start
\* Room for one more Thread object, counting the callers already past line 44.
CanCreateThread ==
  nthreads + Cardinality({c \in Callers : cpc[c] = "start45"}) < MaxThreads

CallBegins(c, op) ==
  /\ cpc[c] = "idle"
  /\ ncalls < MaxCalls
  /\ ncalls' = ncalls + 1
  /\ lastcall' = [caller |-> c, op |-> op]
  /\ ctime' = [ctime EXCEPT ![c] = now]

CallEnds(c, result) ==
  /\ cpc' = [cpc EXCEPT ![c] = "idle"]
  /\ cres' = [cres EXCEPT ![c] = result]

StartGuard_Always == TRUE

\* line 44: if not self.is_running()
StartGuard == ~IsRunning

\* line 44: the call begins; the guard lets it go on or ends it
Start44(c) ==
  /\ CallBegins(c, "start")
  /\ IF ~StartGuard
       THEN CallEnds(c, "start_noop")
       ELSE /\ CanCreateThread
            /\ cpc' = [cpc EXCEPT ![c] = "start45"]
            /\ cres' = [cres EXCEPT ![c] = "none"]
  /\ UNCHANGED <<ifacev, after_signal, config, runner, locals, loopv, now, events, cjoin, ctarget, nraises>>

\* The handle names a Thread object that start() was not called on yet: what
\* lines 46 and 48 need of it to go through.
HandleIsFresh == thread # None /\ ~IsStarted(thread)

\* The handle names a Thread object that was started: what join() needs.
HandleIsJoinable == thread # None /\ IsStarted(thread)

\* line 45: self._measurement_thread = threading.Thread(target=...)
Start45(c) ==
  /\ cpc[c] = "start45"
  /\ nthreads < MaxThreads
  /\ nthreads' = nthreads + 1
  /\ thread' = nthreads + 1
  /\ tpc' = [tpc EXCEPT ![nthreads + 1] = "created"]
  /\ cpc' = [cpc EXCEPT ![c] = "start46"]
  /\ UNCHANGED <<ifacev, after_signal, config, stop_event, locals, exit_reason, now, events,
                 cjoin, cres, ctarget, ctime, ncalls, lastcall, nraises>>

\* line 46: self._measurement_thread.daemon = True
Start46(c) ==
  /\ cpc[c] = "start46"
  /\ HandleIsFresh
  /\ cpc' = [cpc EXCEPT ![c] = "start47"]
  /\ UNCHANGED <<ifacev, after_signal, config, runner, locals, loopv, now, events,
                 cjoin, cres, ctarget, ctime, ncalls, lastcall, nraises>>

\* line 46 raising: the handle is None by now (AttributeError) or names a
\* Thread that was started already (RuntimeError).
Start46Raises(c) ==
  /\ cpc[c] = "start46"
  /\ ~HandleIsFresh
  /\ CallEnds(c, "raised")
  /\ UNCHANGED <<ifacev, after_signal, config, runner, locals, loopv, now, events,
                 cjoin, ctarget, ctime, ncalls, lastcall, nraises>>

ClearedSignal_LeftAsItIs == stop_event

\* Event.clear(): the flag is false afterwards
ClearedSignal == FALSE

\* line 47: self._stop_event.clear()
Start47(c) ==
  /\ cpc[c] = "start47"
  /\ stop_event' = ClearedSignal
  /\ cpc' = [cpc EXCEPT ![c] = "start48"]
  /\ UNCHANGED <<ifacev, after_signal, config, thread, nthreads, locals, loopv, now, events,
                 cjoin, cres, ctarget, ctime, ncalls, lastcall, nraises>>

\* line 48: self._measurement_thread.start()
Start48(c) ==
  /\ cpc[c] = "start48"
  /\ HandleIsFresh
  /\ tpc' = [tpc EXCEPT ![thread] = "L18"]
  /\ CallEnds(c, "started")
  /\ UNCHANGED <<ifacev, after_signal, config, runner, locals, exit_reason, now, events,
                 cjoin, ctarget, ctime, ncalls, lastcall, nraises>>

\* line 48 raising: the handle is None (AttributeError) or names a Thread that
\* was started already (RuntimeError: threads can only be started once).
Start48Raises(c) ==
  /\ cpc[c] = "start48"
  /\ ~HandleIsFresh
  /\ CallEnds(c, "raised")
  /\ UNCHANGED <<ifacev, after_signal, config, runner, locals, loopv, now, events,
                 cjoin, ctarget, ctime, ncalls, lastcall, nraises>>

\* -------------------------------------------------- MeasurementRunner.stop
StopGuard_Always == TRUE

\* line 51: if self.is_running()
StopGuard == IsRunning

\* line 51: the call begins; the guard lets it go on or ends it
Stop51(c) ==
  /\ CallBegins(c, "stop")
  /\ IF StopGuard
       THEN /\ cpc' = [cpc EXCEPT ![c] = "stop52"]
            /\ cres' = [cres EXCEPT ![c] = "none"]
            /\ ctarget' = [ctarget EXCEPT ![c] = thread]
       ELSE /\ CallEnds(c, "stop_noop")
            /\ ctarget' = [ctarget EXCEPT ![c] = None]
  /\ UNCHANGED <<ifacev, after_signal, config, runner, locals, loopv, now, events, cjoin, nraises>>

\* line 52: self._stop_event.set()
Stop52(c) ==
  /\ cpc[c] = "stop52"
  /\ stop_event' = TRUE
  /\ cpc' = [cpc EXCEPT ![c] = "stop53"]
  /\ UNCHANGED <<ifacev, after_signal, config, thread, nthreads, locals, loopv, now, events,
                 cjoin, cres, ctarget, ctime, ncalls, lastcall, nraises>>

\* line 53: self._measurement_thread.join(), the call: it reads the handle
\* and starts to wait for that Thread object.
Stop53(c) ==
  /\ cpc[c] = "stop53"
  /\ HandleIsJoinable
  /\ cjoin' = [cjoin EXCEPT ![c] = thread]
  /\ cpc' = [cpc EXCEPT ![c] = "join"]
  /\ UNCHANGED <<ifacev, after_signal, config, runner, locals, loopv, now, events,
                 cres, ctarget, ctime, ncalls, lastcall, nraises>>

\* line 53 raising: the handle is None by now (AttributeError) or names a
\* Thread not started yet (RuntimeError: cannot join thread before it is started).
Stop53Raises(c) ==
  /\ cpc[c] = "stop53"
  /\ ~HandleIsJoinable
  /\ CallEnds(c, "raised")
  /\ UNCHANGED <<ifacev, after_signal, config, runner, locals, loopv, now, events,
                 cjoin, ctarget, ctime, ncalls, lastcall, nraises>>

JoinReturns_NoWait(t) == TRUE

\* Thread.join() lets its caller go on once the Thread's run() has ended.
JoinReturns(t) == tpc[t] = "dead"

\* line 53, join() returning
Stop53Joined(c) ==
  /\ cpc[c] = "join"
  /\ JoinReturns(cjoin[c])
  /\ cpc' = [cpc EXCEPT ![c] = "stop54"]
  /\ UNCHANGED <<ifacev, after_signal, config, runner, locals, loopv, now, events,
                 cjoin, cres, ctarget, ctime, ncalls, lastcall, nraises>>

\* line 54: self._measurement_thread = None
Stop54(c) ==
  /\ cpc[c] = "stop54"
  /\ thread' = None
  /\ CallEnds(c, "stopped")
  /\ UNCHANGED <<ifacev, after_signal, config, stop_event, nthreads, locals, loopv, now, events,
                 cjoin, ctarget, ctime, ncalls, lastcall, nraises>>

\* ------------------------------------- MeasurementRunner._run_measurements
Dies_KeepsRunning(t) ==
  /\ exit_reason' = [exit_reason EXCEPT ![t] = "raise"]
  /\ UNCHANGED tpc

\* The exception of a raising callback ends the run.
Dies(t) ==
  /\ tpc' = [tpc EXCEPT ![t] = "dead"]
  /\ exit_reason' = [exit_reason EXCEPT ![t] = "raise"]

InitialDoSample_False == FALSE

\* line 22: do_sample = True
InitialDoSample == TRUE

\* lines 18-24: the "Process starting" event, then the locals
Run18(t) ==
  /\ tpc[t] = "L18"
  /\ \E ok \in BOOLEAN :
       /\ Callback(t, 0, MsgStarting, ok)
       /\ IF ok
            THEN /\ do_sample' = [do_sample EXCEPT ![t] = InitialDoSample]
                 /\ start_time' = [start_time EXCEPT ![t] = now]
                 /\ sample_start' = [sample_start EXCEPT ![t] = now]
                 /\ tpc' = [tpc EXCEPT ![t] = "L25"]
                 /\ UNCHANGED exit_reason
            ELSE /\ Dies(t)
                 /\ UNCHANGED <<do_sample, start_time, sample_start>>
  /\ UNCHANGED <<ifacev, after_signal, config, runner, idx, wake, now, callerv>>

LoopContinues_IgnoresSignal == TRUE

\* line 25: while not self._stop_event.is_set()
LoopContinues == ~stop_event

\* lines 25-26: the loop condition, then if do_sample
Run25(t) ==
  /\ tpc[t] = "L25"
  /\ IF ~LoopContinues
       THEN /\ tpc' = [tpc EXCEPT ![t] = "L41"]
            /\ exit_reason' = [exit_reason EXCEPT ![t] = "cancel"]
            /\ UNCHANGED <<do_sample, idx>>
       ELSE /\ UNCHANGED exit_reason
            /\ IF do_sample[t] /\ Len(measurements) > 0
                 THEN /\ idx' = [idx EXCEPT ![t] = 1]
                      /\ tpc' = [tpc EXCEPT ![t] = "L27"]
                      /\ UNCHANGED do_sample
                 ELSE /\ do_sample' = [do_sample EXCEPT ![t] = FALSE]
                      /\ tpc' = [tpc EXCEPT ![t] = "L33"]
                      /\ UNCHANGED idx
  /\ UNCHANGED <<ifacev, after_signal, config, runner, start_time, sample_start, wake, now, events,
                 callerv, nraises>>

MeasurementAt_Reversed(i) == measurements[Len(measurements) + 1 - i]

\* line 27: for measurement in measurements, the element of the i-th round
MeasurementAt(i) == measurements[i]

BatchDone_OffByOne(t) == idx[t] >= Len(measurements) - 1

\* line 27: the for loop has gone through the whole list
BatchDone(t) == idx[t] >= Len(measurements)

\* lines 27-32: one measurement event of the batch; after the last, line 32
Run27(t) ==
  /\ tpc[t] = "L27"
  /\ \E ok \in BOOLEAN :
       /\ Callback(t, now - start_time[t], MsgMeasurement(MeasurementAt(idx[t])[KEY_NAME]), ok)
       /\ IF ~ok
            THEN Dies(t) /\ UNCHANGED <<do_sample, idx>>
            ELSE /\ UNCHANGED exit_reason
                 /\ IF ~BatchDone(t)
                      THEN /\ idx' = [idx EXCEPT ![t] = idx[t] + 1]
                           /\ UNCHANGED <<tpc, do_sample>>
                      ELSE /\ do_sample' = [do_sample EXCEPT ![t] = FALSE]
                           /\ tpc' = [tpc EXCEPT ![t] = "L33"]
                           /\ UNCHANGED idx
  /\ after_signal' = [after_signal EXCEPT ![t].batches =
                        IF stop_event /\ idx[t] = 1 THEN @ + 1 ELSE @]
  /\ UNCHANGED <<ifacev, config, runner, start_time, sample_start, wake, now, callerv>>

\* line 33: time.sleep(0.05), the call
Run33(t) ==
  /\ tpc[t] = "L33"
  /\ wake' = [wake EXCEPT ![t] = now + PollQuantum]
  /\ tpc' = [tpc EXCEPT ![t] = "sleep"]
  /\ after_signal' = [after_signal EXCEPT ![t].sleeps =
                        IF stop_event THEN @ + 1 ELSE @]
  /\ UNCHANGED <<ifacev, config, runner, do_sample, start_time, sample_start, idx,
                 exit_reason, now, events, callerv, nraises>>

SampleDue_Strict(t) == now - sample_start[t] > sample_time

\* line 35: if interval >= sample_time
SampleDue(t) == now - sample_start[t] >= sample_time

DeadlineReached_Strict(t) == now - start_time[t] > end_time

\* line 39: if duration >= end_time
DeadlineReached(t) == now - start_time[t] >= end_time

SleepReturns_Never(t) == FALSE

\* line 33: time.sleep(0.05) returns when the time has passed
SleepReturns(t) == now >= wake[t]

\* lines 33-40: sleep() returning, the sample-due check, the deadline check
Run34(t) ==
  /\ tpc[t] = "sleep"
  /\ SleepReturns(t)
  /\ IF SampleDue(t)
       THEN /\ sample_start' = [sample_start EXCEPT ![t] = now]
            /\ do_sample' = [do_sample EXCEPT ![t] = TRUE]
       ELSE UNCHANGED <<sample_start, do_sample>>
  /\ IF DeadlineReached(t)
       THEN /\ tpc' = [tpc EXCEPT ![t] = "L41"]
            /\ exit_reason' = [exit_reason EXCEPT ![t] = "deadline"]
       ELSE /\ tpc' = [tpc EXCEPT ![t] = "L25"]
            /\ UNCHANGED exit_reason
  /\ UNCHANGED <<ifacev, after_signal, config, runner, start_time, idx, wake, now, events,
                 callerv, nraises>>

\* line 41: the "Process finished" event; run() ends
Run41(t) ==
  /\ tpc[t] = "L41"
  /\ \E ok \in BOOLEAN :
       /\ Callback(t, now - start_time[t], MsgFinished, ok)
       /\ IF ok
            THEN tpc' = [tpc EXCEPT ![t] = "dead"] /\ UNCHANGED exit_reason
            ELSE Dies(t)
  /\ UNCHANGED <<ifacev, after_signal, config, runner, locals, now, callerv>>

\* ---------------------------------------------------------------- time
\* time.time() moves on: only while every live loop is inside sleep() and has
\* not slept its quantum yet, and every caller is between calls or in join().
Tick ==
  /\ \E t \in Threads : tpc[t] = "sleep"
  /\ \A t \in Threads : IsAlive(t) => tpc[t] = "sleep" /\ now < wake[t]
  /\ \A c \in Callers : cpc[c] \in {"idle", "join"}
  /\ now' = now + 1
  /\ UNCHANGED <<ifacev, after_signal, config, runner, locals, loopv, events, callerv, nraises>>

\* ------------------------------------------------------------- Interface
\* Interface.__init__: any variant, any parameters to match
InterfaceInit ==
  /\ params_to_match \in ParamDicts
  /\ implemented \in SUBSET RequiredOps
  /\ exists = TRUE
  /\ candidate = << >>
  /\ matched = FALSE
  /\ outcome = NoOutcome

\* The runner's specifications have one interface object that nothing uses.
InterfaceUnused ==
  /\ InterfaceInit
  /\ params_to_match = << >>
  /\ implemented = RequiredOps

Mismatch_IgnoresMissing(key, params) ==
  key \in DOMAIN params /\ params[key] # params_to_match[key]

\* line 32: if key not in params.keys() or params[key] != self._params_to_match[key]
Mismatch(key, params) ==
  key \notin DOMAIN params \/ params[key] # params_to_match[key]

\* lines 30-35: the for loop over the keys still to look at, with its break
RECURSIVE IsMatchLoop(_, _)
IsMatchLoop(keys, params) ==
  IF keys = {} THEN TRUE
  ELSE LET key == CHOOSE k \in keys : TRUE
       IN IF Mismatch(key, params) THEN FALSE
          ELSE IsMatchLoop(keys \ {key}, params)

\* Interface.is_match
IsMatch(params) == IsMatchLoop(DOMAIN params_to_match, params)

CallIsMatch ==
  /\ exists
  /\ \E params \in ParamDicts :
       /\ candidate' = params
       /\ matched' = IsMatch(params)
  /\ outcome' = [op |-> "is_match", path |-> "explicit",
                 raised |-> "none", result |-> "returned"]
  /\ UNCHANGED <<params_to_match, implemented, exists, runnerv>>

\* What the body of operation op raises: the base class's method raises
\* NotImplementedError (lines 24, 27, 39), an overriding one what it fails with.
Raises(op, failure) ==
  IF op \in implemented THEN failure ELSE "NotImplementedError"

\* A call made by the owner: what the body raises reaches the caller.
Call(op, failure) ==
  /\ exists
  /\ outcome' = [op |-> op, path |-> "explicit", raised |-> Raises(op, failure),
                 result |-> IF Raises(op, failure) = "none" THEN "returned"
                                                           ELSE "raised"]
  /\ UNCHANGED <<params_to_match, implemented, exists, candidate, matched, runnerv>>

\* Interface.send_command
SendCommand == \E failure \in Failures : Call("send_command", failure)

\* Interface.close, called by the owner
Close == \E failure \in Failures : Call("close", failure)

\* Interface.get_settings_controls
GetSettingsControls == \E failure \in Failures : Call("get_settings_controls", failure)

Caught_Nothing(exception) == FALSE

\* line 14: except (Exception, ); NotImplementedError derives from Exception
Caught(exception) == exception \in {"Exception", "NotImplementedError"}

\* Interface.__del__: close() inside try/except.  An exception the except
\* clause does not catch leaves __del__; the interpreter reports it as
\* unraisable ("Exception ignored in ...") and goes on.
Del ==
  /\ exists
  /\ exists' = FALSE
  /\ \E failure \in Failures :
       outcome' = [op |-> "close", path |-> "del", raised |-> Raises("close", failure),
                   result |-> IF Raises("close", failure) = "none"
                                   \/ Caught(Raises("close", failure))
                                THEN "returned" ELSE "unraisable"]
  /\ UNCHANGED <<params_to_match, implemented, candidate, matched, runnerv>>

\* ------------------------------------------------------------ specifications
LoopStep ==
  \E t \in Threads :
    \/ Run18(t)
    \/ Run25(t)
    \/ Run27(t)
    \/ Run33(t)
    \/ Run34(t)
    \/ Run41(t)

CallerStep(c) ==
  \/ Start44(c)
  \/ Start45(c)
  \/ Start46(c)
  \/ Start47(c)
  \/ Start48(c)
  \/ Stop51(c)
  \/ Stop52(c)
  \/ Stop53(c)
  \/ Stop53Joined(c)
  \/ Stop54(c)

CallerRaises(c) ==
  \/ Start46Raises(c)
  \/ Start48Raises(c)
  \/ Stop53Raises(c)

\* Several caller contexts share the runner.
Next ==
  \/ \E c \in Callers : CallerStep(c)
  \/ \E c \in Callers : CallerRaises(c)
  \/ LoopStep
  \/ Tick

\* One configuration, for the interleavings of several callers: one
\* measurement, a sample due at every poll, the deadline at the first poll.
InitOneConfiguration ==
  /\ Init
  /\ measurements = <<Measurement("temp")>>
  /\ sample_time = PollQuantum
  /\ end_time = PollQuantum

\* One configuration, and the interface object left alone.
InitCallers == InitOneConfiguration /\ InterfaceUnused

SpecCallers == InitCallers /\ [][Next]_vars

\* One caller context owns the runner (single-writer ownership of the run
\* state): its calls follow each other.  Every configuration.
NextOneCaller ==
  \/ CallerStep(1)
  \/ LoopStep
  \/ Tick

\* Every configuration, and the interface object left alone.
InitRunner == Init /\ InterfaceUnused

SpecOneCaller == InitRunner /\ [][NextOneCaller]_vars

\* One caller context, callbacks that return, and fair scheduling: the loop's
\* thread gets to run, time moves on, and a caller inside start() or stop()
\* gets to run (nothing makes a caller begin a call).
ReturningLoopStep == LoopStep /\ nraises' = nraises

CallerContinues(c) == cpc[c] # "idle" /\ CallerStep(c)

NextReturning ==
  \/ CallerStep(1)
  \/ ReturningLoopStep
  \/ Tick

SpecOneCallerFair ==
  /\ InitRunner
  /\ [][NextReturning]_vars
  /\ WF_vars(ReturningLoopStep)
  /\ WF_vars(Tick)
  /\ WF_vars(CallerContinues(1))

\* An interface object and its owner; the runner is not started.
NextInterface ==
  \/ CallIsMatch
  \/ SendCommand
  \/ Close
  \/ GetSettingsControls
  \/ Del

\* Any interface object, and a runner that is never started.
InitInterface == InitOneConfiguration /\ InterfaceInit

SpecInterface == InitInterface /\ [][NextInterface]_vars

\* ------------------------------------------------------- reading the history
NumMeasurements == Len(measurements)

Alive == {t \in Threads : IsAlive(t)}

\* The run of Thread t left its loop at the deadline and no callback raised.
Completed(t) == tpc[t] = "dead" /\ exit_reason[t] = "deadline"

\* The name the i-th event of a run carries when the events after "Process
\* starting" go through the measurement list again and again, in its order.
ExpectedName(i) == measurements[((i - 2) % NumMeasurements) + 1].name

IsMeasurementEvent(e) == e.message \notin {MsgStarting, MsgFinished}

\* 0 for the events of the initial batch, 1 for those of the next batch, ...
BatchOf(i) == (i - 2) \div NumMeasurements

\* Measurement batches in the events of a completed run.
NumBatches(t) == (Len(events[t]) - 2) \div NumMeasurements

CeilDiv(a, b) == (a + b - 1) \div b

\* sample_time and end_time as the loop sees them: it looks at the clock once
\* per poll quantum, so each counts as the next whole number of quanta.
Period == PollQuantum * CeilDiv(sample_time, PollQuantum)
Deadline ==
  IF end_time = 0 THEN PollQuantum ELSE PollQuantum * CeilDiv(end_time, PollQuantum)

\* Caller c is back from a stop() that found the runner running.
StopReturned(c) == cpc[c] = "idle" /\ cres[c] = "stopped"

\* The step is the first line of a call to op; who makes it is lastcall'.caller.
CallOf(op) == ncalls' # ncalls /\ lastcall'.op = op

\* -------------------------------------------------------------------- C1
\* C1: once a stop() that found the loop alive has returned, is_running() is
\* false, the run it stopped has ended, and a run that has ended never
\* invokes the callback again.  (One caller context.)
C1_StopEndsTheRun ==
  /\ [](\A c \in Callers : StopReturned(c) =>
          ~IsRunning /\ tpc[ctarget[c]] = "dead")
  /\ [][\A t \in Threads : tpc[t] = "dead" =>
          tpc'[t] = "dead" /\ events'[t] = events[t]]_vars

C1_Witness ==
  \E c \in Callers :
    /\ StopReturned(c)
    /\ exit_reason[ctarget[c]] = "cancel"
    /\ Len(events[ctarget[c]]) > 2
    /\ now > ctime[c]

\* -------------------------------------------------------------------- C2
\* C2: a start() made while the runner is running ends at its first line: the
\* runner stays running, the handle, the signal, the Thread objects and the
\* events are as they were (no second loop, no second "Process starting").
C2_StartWhileRunningIsNoOp ==
  [][(CallOf("start") /\ IsRunning) =>
       /\ IsRunning'
       /\ cpc'[lastcall'.caller] = "idle"
       /\ <<thread, stop_event, nthreads, tpc, events>>' =
            <<thread, stop_event, nthreads, tpc, events>>]_vars

C2_Witness ==
  \E c \in Callers :
    /\ cres[c] = "start_noop"
    /\ lastcall = [caller |-> c, op |-> "start"]
    /\ IsRunning
    /\ nthreads = 1

\* -------------------------------------------------------------------- C3
\* C3: at most one background loop of the runner is alive, whatever the
\* interleaving of the callers' start() and stop() with the loop.
C3_AtMostOneLoop == Cardinality(Alive) <= 1

\* -------------------------------------------------------------------- C4
\* C4: the events of a run that ended at its deadline are "Process starting",
\* then whole batches (one event per configured measurement), then "Process
\* finished", and nothing after it.
C4_CompletedRunSequence ==
  \A t \in Threads : Completed(t) =>
    LET es == events[t] IN
      /\ Len(es) >= 2
      /\ es[1].message = MsgStarting
      /\ es[Len(es)].message = MsgFinished
      /\ \A i \in 2..(Len(es) - 1) : IsMeasurementEvent(es[i])
      /\ IF NumMeasurements = 0 THEN Len(es) = 2
                                ELSE (Len(es) - 2) % NumMeasurements = 0

C4_Witness ==
  \E t \in Threads :
    /\ Completed(t)
    /\ NumMeasurements = 2
    /\ Len(events[t]) >= 6

\* -------------------------------------------------------------------- C5
\* C5: in every run, at every moment, "Process starting" is the first event
\* and only the first, "Process finished" can only be the last, the events
\* between carry the measurement names in the order of the list, batch after
\* batch, and the elapsed values never decrease.
C5_EventsAreOrdered ==
  \A t \in Threads :
    LET es == events[t] IN
      \A i \in 1..Len(es) :
        /\ (es[i].message = MsgStarting) <=> (i = 1)
        /\ (es[i].message = MsgFinished) => (i = Len(es))
        /\ (i > 1 /\ es[i].message # MsgFinished) =>
             /\ NumMeasurements > 0
             /\ es[i].message = MsgMeasurement(ExpectedName(i))
        /\ (i > 1) => es[i - 1].elapsed <= es[i].elapsed

C5_Witness ==
  \E t \in Threads :
    /\ exit_reason[t] = "cancel"
    /\ tpc[t] = "dead"
    /\ NumMeasurements = 2
    /\ Len(events[t]) >= 6

\* -------------------------------------------------------------------- C6
\* C6 as claimed: a run that ends at its deadline has emitted exactly
\* 1 + floor(end_time / sample_time) batches.
C6_Claimed ==
  \A t \in Threads : (Completed(t) /\ NumMeasurements > 0) =>
    NumBatches(t) = 1 + (end_time \div sample_time)

\* C6 as the code has it: a run that ends at its deadline has emitted its
\* first batch at elapsed 0 and ceil(Deadline / Period) batches in all: one
\* at every multiple of Period below Deadline, none at Deadline itself.
C6_BatchCount ==
  \A t \in Threads : (Completed(t) /\ NumMeasurements > 0) =>
    /\ NumBatches(t) = CeilDiv(Deadline, Period)
    /\ NumBatches(t) >= 1
    /\ \A i \in 2..(1 + NumMeasurements) : events[t][i].elapsed = 0
    /\ events[t][Len(events[t])].elapsed = Deadline

C6_Witness ==
  \E t \in Threads :
    /\ Completed(t)
    /\ NumMeasurements > 0
    /\ sample_time = PollQuantum
    /\ end_time = 2 * sample_time
    /\ NumBatches(t) = 2

\* -------------------------------------------------------------------- C7
\* C7 as claimed: every event of the k-th batch after the initial one has an
\* elapsed value t with k * sample_time <= t < k * sample_time + PollQuantum.
C7_Claimed ==
  \A t \in Threads : \A i \in 2..Len(events[t]) :
    (IsMeasurementEvent(events[t][i]) /\ BatchOf(i) >= 1) =>
      /\ BatchOf(i) * sample_time <= events[t][i].elapsed
      /\ events[t][i].elapsed < BatchOf(i) * sample_time + PollQuantum

\* C7 as the code has it: the window restarts at the poll that finds the
\* sample due, so the k-th batch after the initial one is emitted at
\* k * Period, which lies in k * sample_time .. k * (sample_time + quantum).
C7_BatchTimes ==
  \A t \in Threads : \A i \in 2..Len(events[t]) :
    IsMeasurementEvent(events[t][i]) =>
      LET k == BatchOf(i)
          e == events[t][i].elapsed IN
        /\ e = k * Period
        /\ k * sample_time <= e
        /\ k >= 1 => e < k * (sample_time + PollQuantum)
        /\ (sample_time % PollQuantum = 0) => e = k * sample_time

C7_Witness ==
  \E t \in Threads : \E i \in 2..Len(events[t]) :
    /\ IsMeasurementEvent(events[t][i])
    /\ BatchOf(i) = 2
    /\ sample_time % PollQuantum # 0
    /\ events[t][i].elapsed >= 2 * sample_time + PollQuantum

\* -------------------------------------------------------------------- C8
\* When stop() was called, as the elapsed time of the run it stopped.
StopElapsed(c) == ctime[c] - start_time[ctarget[c]]

FinishedEvent(t) == events[t][Len(events[t])]

\* C8: when a stop() called before the deadline of the run has returned (no
\* callback having raised), "Process finished" is the run's last event and
\* its elapsed value is at most one poll quantum after the call.
C8_StopLatency ==
  \A c \in Callers :
    (StopReturned(c) /\ exit_reason[ctarget[c]] # "raise") =>
      /\ Len(events[ctarget[c]]) >= 2
      /\ FinishedEvent(ctarget[c]).message = MsgFinished
      /\ StopElapsed(c) >= 0
      /\ StopElapsed(c) < end_time =>
           /\ FinishedEvent(ctarget[c]).elapsed >= StopElapsed(c)
           /\ FinishedEvent(ctarget[c]).elapsed <= StopElapsed(c) + PollQuantum

C8_Witness ==
  \E c \in Callers :
    /\ StopReturned(c)
    /\ exit_reason[ctarget[c]] = "cancel"
    /\ StopElapsed(c) > 0
    /\ StopElapsed(c) + PollQuantum < end_time
    /\ FinishedEvent(ctarget[c]).elapsed > StopElapsed(c)

\* -------------------------------------------------------------------- C9
\* C9: a stop() made while the runner is not running ends at its first line
\* (it does not wait) and leaves the signal, the handle, the Thread objects
\* and the events as they were.
C9_StopWhileIdleIsNoOp ==
  [][(CallOf("stop") /\ ~IsRunning) =>
       /\ cpc'[lastcall'.caller] = "idle"
       /\ <<thread, stop_event, nthreads, tpc, events>>' =
            <<thread, stop_event, nthreads, tpc, events>>]_vars

C9_Witness ==
  \E c \in Callers :
    /\ cres[c] = "stop_noop"
    /\ lastcall = [caller |-> c, op |-> "stop"]
    /\ thread # None
    /\ tpc[thread] = "dead"
    /\ ~stop_event

\* -------------------------------------------------------------------- C10
\* C10: is_running() is true exactly when a background loop of the runner is
\* alive, whatever the interleaving of start(), stop() and the loop.
C10_IsRunningIffLoopAlive == IsRunning <=> (Alive # {})

\* -------------------------------------------------------------------- C11
\* C11: is_match(P) is true exactly when every key of the parameters to match
\* is in P with an equal value.
C11_IsMatchIsSubset ==
  (outcome.op = "is_match") =>
    (matched <=> \A k \in DOMAIN params_to_match :
                   k \in DOMAIN candidate /\ candidate[k] = params_to_match[k])

C11_Witness ==
  /\ outcome.op = "is_match"
  /\ params_to_match = ("port" :> "COM3")
  /\ candidate = ("port" :> "COM3") @@ ("baud" :> "9600")
  /\ matched

\* -------------------------------------------------------------------- C12
SpecifiedMsgMeasurement(name) == "Process measurement: " \o name

\* C12: every event is "Process starting" with elapsed 0, or "Process
\* measurement: <name>" (single spaces) for a configured measurement's name, or
\* "Process finished".
C12_Claimed ==
  \A t \in Threads : \A i \in 1..Len(events[t]) :
    \/ events[t][i] = Event(0, MsgStarting)
    \/ \E j \in 1..NumMeasurements :
         events[t][i].message = SpecifiedMsgMeasurement(measurements[j][KEY_NAME])
    \/ events[t][i].message = MsgFinished

\* -------------------------------------------------------------------- C13
\* C13: the implicit cleanup always attempts close() and what close() raises
\* never reaches anyone: an error is swallowed by the except clause.  What an
\* explicit close() raises reaches its caller.
C13_CloseFailure ==
  /\ ~exists => outcome.path = "del" /\ outcome.op = "close"
  /\ outcome.path = "del" =>
       /\ outcome.result # "raised"
       /\ outcome.raised \in {"Exception", "NotImplementedError"} =>
            outcome.result = "returned"
  /\ (outcome.path = "explicit" /\ outcome.op = "close" /\ outcome.raised # "none") =>
       outcome.result = "raised"

C13_Witness ==
  /\ outcome.path = "del"
  /\ "close" \in implemented
  /\ outcome.raised = "Exception"
  /\ outcome.result = "returned"

\* -------------------------------------------------------------------- C14
\* C14: the use of a required operation the variant does not implement fails
\* explicitly, on every path that uses it.
C14_Claimed ==
  (outcome.op \in RequiredOps /\ outcome.op \notin implemented) =>
    outcome.result = "raised"

BeforeFirstCheck(t) == tpc[t] \in {"L18", "L25"} /\ wake[t] = 0

\* A stop() that found Thread t running has raised the signal and not returned.
StopInProgressOn(t) ==
  \E c \in Callers : cpc[c] \in {"stop53", "join"} /\ ctarget[c] = t

\* C16: a run started after earlier runs were stopped or reached their
\* deadline is started with the signal clear; the signal is up at its first
\* check only if a stop() was made on this very run, the run leaves the loop
\* as cancelled only during such a stop(), and a first check that finds the
\* signal clear begins the first batch.  (One caller context.)
C16_RestartIsFresh ==
  /\ [](\A t \in Threads :
          /\ (BeforeFirstCheck(t) /\ stop_event) => StopInProgressOn(t)
          /\ (wake[t] # 0 /\ NumMeasurements > 0 /\ exit_reason[t] # "raise") =>
               /\ Len(events[t]) >= 1 + NumMeasurements
               /\ events[t][1] = Event(0, MsgStarting)
               /\ \A i \in 2..(1 + NumMeasurements) :
                    events[t][i] = Event(0, MsgMeasurement(ExpectedName(i))))
  /\ [][\A t \in Threads :
          /\ (exit_reason[t] # "cancel" /\ exit_reason'[t] = "cancel") =>
               StopInProgressOn(t)
          /\ (tpc[t] = "new" /\ tpc'[t] = "L18") => ~stop_event
          /\ (BeforeFirstCheck(t) /\ tpc[t] = "L25" /\ tpc'[t] # "L25"
                /\ ~stop_event /\ NumMeasurements > 0) => tpc'[t] = "L27"]_vars

C16_Witness ==
  /\ exit_reason[1] = "cancel"
  /\ tpc[1] = "dead"
  /\ thread = 2
  /\ IsAlive(2)
  /\ ~stop_event
  /\ NumMeasurements > 0
  /\ Len(events[2]) = 1 + NumMeasurements

\* -------------------------------------------------------------------- C17
\* C17: with fair scheduling, time moving on and callbacks that return, every
\* started run ends with "Process finished" as its last event, a loop that
\* sees its deadline reached or the signal raised leaves the loop, a running
\* runner stops running, and a stop() that raised the signal returns.
C17_EveryRunEnds ==
  /\ \A t \in Threads :
       (tpc[t] = "L18") ~>
         (tpc[t] = "dead" /\ events[t][Len(events[t])].message = MsgFinished)
  /\ \A t \in Threads :
       (IsAlive(t) /\ stop_event) ~> (exit_reason[t] \in {"cancel", "deadline"})
  /\ IsRunning ~> ~IsRunning
  /\ \A c \in Callers : (cpc[c] = "stop52") ~> StopReturned(c)

C17_Witness ==
  /\ StopReturned(1)
  /\ thread = None
  /\ exit_reason[1] = "deadline"
  /\ exit_reason[2] = "cancel"
  /\ tpc[2] = "dead"
  /\ events[2][Len(events[2])].message = MsgFinished

\* -------------------------------------------------------------------- C18
\* The events of Thread t begin with "Process starting" and the whole first
\* batch, all with elapsed 0.
HasFirstBatch(t) ==
  /\ Len(events[t]) >= 1 + NumMeasurements
  /\ events[t][1] = Event(0, MsgStarting)
  /\ \A i \in 2..(1 + NumMeasurements) : IsMeasurementEvent(events[t][i])
  /\ \A i \in 2..(1 + NumMeasurements) : events[t][i].elapsed = 0

\* The loop of Thread t is past the batch of its first iteration, or has left
\* the loop, and no callback raised.
PastFirstIteration(t) ==
  /\ tpc[t] \in {"L33", "sleep", "L41", "dead"} \/ wake[t] # 0
  /\ exit_reason[t] # "raise"

\* C18 as claimed: every run emits the first batch right after "Process
\* starting", whenever stop() is called.
C18_Claimed ==
  \A t \in Threads : (PastFirstIteration(t) /\ NumMeasurements > 0) => HasFirstBatch(t)

\* C18: a run whose first check of the signal finds it clear emits the first
\* batch right after "Process starting", at elapsed 0 and before its first
\* sleep, for every sample_time and end_time; a run that has no first batch
\* was cancelled at its first check and has no measurement event at all.
C18_FirstBatchUnlessCancelledAtOnce ==
  \A t \in Threads : (PastFirstIteration(t) /\ NumMeasurements > 0) =>
    \/ HasFirstBatch(t)
    \/ /\ exit_reason[t] = "cancel"
       /\ wake[t] = 0
       /\ \A i \in 1..Len(events[t]) : ~IsMeasurementEvent(events[t][i])

C18_Witness ==
  \E t \in Threads :
    /\ tpc[t] = "L33"
    /\ wake[t] = 0
    /\ end_time = 0
    /\ sample_time = MaxSampleTime
    /\ NumMeasurements = 2
    /\ HasFirstBatch(t)
    /\ Len(events[t]) = 3

\* -------------------------------------------------------------------- C19
\* C19: the signal is read at line 25 only.  With the signal up the loop
\* begins at most one batch (the one whose iteration read the signal before
\* it was raised) and at most one sleep; a check that finds the signal up
\* leaves the loop; a batch that was begun goes through the whole list unless
\* a callback raises.  (One caller context.)
C19_CancellationAtLoopTop ==
  /\ [](\A t \in Threads :
          /\ after_signal[t].batches <= 1
          /\ after_signal[t].sleeps <= 1
          /\ (exit_reason[t] = "cancel" /\ tpc[t] = "dead") =>
               events[t][Len(events[t])].message = MsgFinished)
  /\ [][\A t \in Threads :
          /\ (tpc[t] = "L25" /\ stop_event /\ tpc'[t] # "L25") =>
               (tpc'[t] = "L41" /\ exit_reason'[t] = "cancel")
          /\ (tpc[t] = "L27" /\ tpc'[t] # "L27") =>
               \/ tpc'[t] = "L33" /\ idx[t] = NumMeasurements
               \/ exit_reason'[t] = "raise"
          /\ (tpc[t] \in {"L27", "L33"} /\ tpc'[t] = "L41") => FALSE]_vars

C19_Witness ==
  \E t \in Threads :
    /\ after_signal[t] = [batches |-> 1, sleeps |-> 1]
    /\ NumMeasurements = 2
    /\ tpc[t] = "dead"
    /\ exit_reason[t] = "cancel"
    /\ Len(events[t]) >= 4

\* -------------------------------------------------------------------- C20
\* C20: the deadline check follows the sample-due check and breaks: once the
\* loop has seen its deadline reached the only further event is "Process
\* finished", also when a sample became due in that iteration, and every
\* measurement event after the initial batch has elapsed < end_time.
C20_DeadlineBeforeDueSample ==
  /\ [](\A t \in Threads : \A i \in 2..Len(events[t]) :
          (IsMeasurementEvent(events[t][i]) /\ BatchOf(i) >= 1) =>
            events[t][i].elapsed < end_time)
  /\ [][\A t \in Threads : exit_reason[t] = "deadline" =>
          \/ events'[t] = events[t]
          \/ /\ Len(events'[t]) = Len(events[t]) + 1
             /\ events'[t][Len(events'[t])].message = MsgFinished
             /\ ~IsAlive(t)']_vars

C20_Witness ==
  \E t \in Threads :
    /\ Completed(t)
    /\ do_sample[t]
    /\ NumMeasurements = 1
    /\ Len(events[t]) >= 4
    /\ events[t][Len(events[t]) - 1].elapsed < events[t][Len(events[t])].elapsed

====
